---- MODULE Spec2Model ----
(***************************************************************************)
(* Model of the text-diff core of text-diff-viewer:                         *)
(*   textProcessor.ts  (normalizer, character segmenter)                    *)
(*   levenshtein.ts    (alignment engine, operation optimizer, record       *)
(*                      builder, calculateDiff, calculateSimilarity)        *)
(*                                                                         *)
(* A text is a sequence of UTF-16 code units, each written as a one-token   *)
(* string.  A comparison unit is a text (one code point, one word, one      *)
(* whitespace run, one line or one newline).                                *)
(***************************************************************************)
EXTENDS Integers, Sequences, FiniteSets, TLC

(***************************************************************************)
(* Bounds of the model.                                                     *)
(***************************************************************************)
\* longest generated input text of Spec (code units)
MaxLen == 3
\* longest generated unit sequence of SpecLev
MaxUnits == 3
\* number of clock ticks that may pass during one calculateLevenshtein call
MaxTicks == 2
\* longest generated operation list of SpecOpt
MaxOps == 3

(***************************************************************************)
(* Code units.                                                              *)
(***************************************************************************)
BOM == "BOM"    \* U+FEFF
HI  == "HI"     \* a high (leading) surrogate
LO  == "LO"     \* a low (trailing) surrogate

\* the code units from which Spec generates its inputs
Alphabet == {"a", "A", "\n"}

\* the units from which SpecLev generates its inputs
UnitAlphabet == {<<"a">>, <<"b">>}

RECURSIVE SeqsUpTo(_, _)
SeqsUpTo(S, n) ==
    IF n = 0 THEN {<<>>}
    ELSE LET shorter == SeqsUpTo(S, n - 1)
         IN  shorter \cup {Append(s, x) : s \in shorter, x \in S}

\* a text written out, for the concrete scenarios
Kitten  == <<"k", "i", "t", "t", "e", "n">>
Sitting == <<"s", "i", "t", "t", "i", "n", "g">>
Abc     == <<"a", "b", "c">>
Xyz     == <<"x", "y", "z">>

Max(a, b) == IF a >= b THEN a ELSE b

RECURSIVE Concat(_)
\* the concatenation of a sequence of texts (Array.prototype.join(''))
Concat(units) ==
    IF units = <<>> THEN <<>> ELSE Head(units) \o Concat(Tail(units))

(***************************************************************************)
(* textProcessor.ts: the Text Normalizer.                                   *)
(***************************************************************************)
\* mutant of ReplaceCRLF: the pair left to the second replacement
ReplaceCRLF_Skipped(text) == text

RECURSIVE ReplaceCRLF(_)
\* text.replace(/\r\n/g, '\n')
ReplaceCRLF(text) ==
    IF text = <<>> THEN <<>>
    ELSE IF Len(text) >= 2 /\ text[1] = "\r" /\ text[2] = "\n"
         THEN <<"\n">> \o ReplaceCRLF(SubSeq(text, 3, Len(text)))
         ELSE <<text[1]>> \o ReplaceCRLF(Tail(text))

\* text.replace(/\r/g, '\n')
ReplaceCR(text) == [k \in 1..Len(text) |-> IF text[k] = "\r" THEN "\n" ELSE text[k]]

normalizeLineBreaks(text) == ReplaceCR(ReplaceCRLF(text))

removeBOM(text) ==
    IF text # <<>> /\ text[1] = BOM THEN Tail(text) ELSE text

\* default of normalizeWhitespace's maxConsecutiveSpaces
MaxConsecutiveSpaces == 2

\* text.replace(/\t/g, ' ')
ReplaceTabs(text) == [k \in 1..Len(text) |-> IF text[k] = "\t" THEN " " ELSE text[k]]

RECURSIVE SpaceRun(_, _)
\* length of the run of spaces that starts at index k of text
SpaceRun(text, k) ==
    IF k <= Len(text) /\ text[k] = " " THEN 1 + SpaceRun(text, k + 1) ELSE 0

RECURSIVE ClampSpaces(_, _)
\* text.replace(/ {max+1,}/g, ' '.repeat(max)), scanning from index k
ClampSpaces(text, k) ==
    IF k > Len(text) THEN <<>>
    ELSE LET run == SpaceRun(text, k)
         IN  IF run > MaxConsecutiveSpaces
             THEN [x \in 1..MaxConsecutiveSpaces |-> " "] \o ClampSpaces(text, k + run)
             ELSE <<text[k]>> \o ClampSpaces(text, k + 1)

\* normalizeWhitespace with its default options
\* (preserveTabs = false, normalizeSpaces = true, maxConsecutiveSpaces = 2)
normalizeWhitespace(text) == ClampSpaces(ReplaceTabs(text), 1)

\* preprocessText with its default options, as calculateDiff calls it
preprocessText(text) == normalizeWhitespace(normalizeLineBreaks(removeBOM(text)))

\* String.prototype.toLowerCase on the modelled code units
toLowerCase(text) == [k \in 1..Len(text) |-> IF text[k] = "A" THEN "a" ELSE text[k]]

(***************************************************************************)
(* The Segmenter.                                                           *)
(***************************************************************************)
RECURSIVE splitIntoChars(_)
\* [...text]: the string iterator yields code points, a surrogate pair as one
splitIntoChars(text) ==
    IF text = <<>> THEN <<>>
    ELSE IF Len(text) >= 2 /\ text[1] = HI /\ text[2] = LO
         THEN <<SubSeq(text, 1, 2)>> \o splitIntoChars(SubSeq(text, 3, Len(text)))
         ELSE <<SubSeq(text, 1, 1)>> \o splitIntoChars(Tail(text))

\* the class \s of a JavaScript regular expression, on the modelled code units
IsSpace(c) == c \in {" ", "\t", "\n", "\r", BOM}

RECURSIVE SpaceRunLen(_, _)
\* length of the maximal run of \s code units that starts at index k
SpaceRunLen(text, k) ==
    IF k <= Len(text) /\ IsSpace(text[k]) THEN 1 + SpaceRunLen(text, k + 1) ELSE 0

RECURSIVE SplitWords_DropSpaces(_, _, _)
\* mutant of SplitWords: text.split(/\s+/), the whitespace runs not retained
SplitWords_DropSpaces(text, k, cur) ==
    IF k > Len(text) THEN <<cur>>
    ELSE LET run == SpaceRunLen(text, k)
         IN  IF run > 0
             THEN <<cur>> \o SplitWords_DropSpaces(text, k + run, <<>>)
             ELSE SplitWords_DropSpaces(text, k + 1, Append(cur, text[k]))

RECURSIVE SplitWords(_, _, _)
\* text.split(/(\s+)/) from index k on, cur being the piece under construction
SplitWords(text, k, cur) ==
    IF k > Len(text) THEN <<cur>>
    ELSE LET run == SpaceRunLen(text, k)
         IN  IF run > 0
             THEN <<cur, SubSeq(text, k, k + run - 1)>> \o SplitWords(text, k + run, <<>>)
             ELSE SplitWords(text, k + 1, Append(cur, text[k]))

RECURSIVE SplitLines(_, _, _)
\* text.split(/(\n)/) from index k on, cur being the piece under construction
SplitLines(text, k, cur) ==
    IF k > Len(text) THEN <<cur>>
    ELSE IF text[k] = "\n"
         THEN <<cur, <<"\n">>>> \o SplitLines(text, k + 1, <<>>)
         ELSE SplitLines(text, k + 1, Append(cur, text[k]))

Precisions == {"character", "word", "line"}

\* getSplitFunction(precision)(text)
getSplitFunction(precision, text) ==
    CASE precision = "character" -> splitIntoChars(text)
      [] precision = "word"      -> SplitWords(text, 1, <<>>)
      [] precision = "line"      -> SplitLines(text, 1, <<>>)
      [] OTHER                   -> splitIntoChars(text)

(***************************************************************************)
(* levenshtein.ts: the Alignment Engine.                                    *)
(* Sequences are 1-based here: str1[i - 1] of the code is str1[i].          *)
(***************************************************************************)
\* `options.timeout || 5000`
DefaultTimeout == 5000

\* LevenshteinOptions: an options object with or without a timeout
EffectiveTimeout(options) ==
    IF "timeout" \in DOMAIN options /\ options.timeout # 0
    THEN options.timeout
    ELSE DefaultTimeout

\* mutant of TimedOut: the operands of the comparison exchanged
TimedOut_Swapped(elapsed, timeout) == timeout > elapsed

\* the check made at the top of every outer-row iteration
TimedOut(elapsed, timeout) == elapsed > timeout

TimeoutMessage == "Levenshtein timeout"

\* mutant of InitDP: the borders left at the zero the matrix is allocated with
InitDP_ZeroBorders(m, n) == [i \in 0..m |-> [j \in 0..n |-> 0]]

\* the matrix after its allocation and the initialisation of its borders
InitDP(m, n) ==
    [i \in 0..m |-> [j \in 0..n |-> IF j = 0 THEN i ELSE IF i = 0 THEN j ELSE 0]]

\* mutant of Min3: the replace cost left out of the minimum
Min3_NoReplace(a, b, c) == IF a <= b THEN a ELSE b

\* mutant of Min3: the insert cost left out of the minimum
Min3_NoInsert(a, b, c) == IF a <= c THEN a ELSE c

Min3(a, b, c) ==
    IF a <= b /\ a <= c THEN a ELSE IF b <= c THEN b ELSE c

\* mutant of FillCell: equal units are charged like unequal ones
FillCell_NoMatch(dp, i, j, str1, str2) ==
    Min3(dp[i - 1][j] + 1, dp[i][j - 1] + 1, dp[i - 1][j - 1] + 1)

\* the value the inner loop stores into dp[i][j]
FillCell(dp, i, j, str1, str2) ==
    IF str1[i] = str2[j]
    THEN dp[i - 1][j - 1]
    ELSE Min3(dp[i - 1][j] + 1, dp[i][j - 1] + 1, dp[i - 1][j - 1] + 1)

RECURSIVE FillRowFrom(_, _, _, _, _)
\* the inner loop `for (let j = 1; j <= n; j++)` of row i, from column j on
FillRowFrom(dp, i, j, str1, str2) ==
    IF j > Len(str2) THEN dp
    ELSE FillRowFrom([dp EXCEPT ![i][j] = FillCell(dp, i, j, str1, str2)],
                     i, j + 1, str1, str2)

FillRow(dp, i, str1, str2) == FillRowFrom(dp, i, 1, str1, str2)

RECURSIVE FillFrom(_, _, _, _)
\* the outer loop from row i on, when no timeout check fires
FillFrom(dp, i, str1, str2) ==
    IF i > Len(str1) THEN dp
    ELSE FillFrom(FillRow(dp, i, str1, str2), i + 1, str1, str2)

FillMatrix(str1, str2) == FillFrom(InitDP(Len(str1), Len(str2)), 1, str1, str2)

\* mutant of BacktraceBranch: the delete transition tried before the replace
BacktraceBranch_DeleteFirst(dp, i, j, str1, str2) ==
    IF i > 0 /\ j > 0 /\ str1[i] = str2[j] THEN "match"
    ELSE IF i > 0 /\ dp[i][j] = dp[i - 1][j] + 1 THEN "delete"
    ELSE IF i > 0 /\ j > 0 /\ dp[i][j] = dp[i - 1][j - 1] + 1 THEN "replace"
    ELSE IF j > 0 /\ dp[i][j] = dp[i][j - 1] + 1 THEN "insert"
    ELSE "none"

\* which branch of the backtrace loop body is taken at (i, j)
BacktraceBranch(dp, i, j, str1, str2) ==
    IF i > 0 /\ j > 0 /\ str1[i] = str2[j] THEN "match"
    ELSE IF i > 0 /\ j > 0 /\ dp[i][j] = dp[i - 1][j - 1] + 1 THEN "replace"
    ELSE IF i > 0 /\ dp[i][j] = dp[i - 1][j] + 1 THEN "delete"
    ELSE IF j > 0 /\ dp[i][j] = dp[i][j - 1] + 1 THEN "insert"
    ELSE "none"

\* mutant of InsertPosition: the target index recorded
InsertPosition_Target(i, j) == j

\* the position an insert records
InsertPosition(i, j) == i

\* one iteration of `while (i > 0 || j > 0)`: st = [i, j, operations]
BacktraceStep(dp, st, str1, str2) ==
    LET i == st.i
        j == st.j
        branch == BacktraceBranch(dp, i, j, str1, str2)
    IN  CASE branch = "match" ->
               [i |-> i - 1, j |-> j - 1, operations |-> st.operations]
          [] branch = "replace" ->
               [i |-> i - 1, j |-> j - 1,
                operations |-> Append(st.operations,
                    [type |-> "replace", position |-> i - 1,
                     oldChar |-> str1[i], newChar |-> str2[j]])]
          [] branch = "delete" ->
               [i |-> i - 1, j |-> j,
                operations |-> Append(st.operations,
                    [type |-> "delete", position |-> i - 1, oldChar |-> str1[i]])]
          [] branch = "insert" ->
               [i |-> i, j |-> j - 1,
                operations |-> Append(st.operations,
                    [type |-> "insert", position |-> InsertPosition(i, j),
                     newChar |-> str2[j]])]
          [] OTHER -> st

RECURSIVE BacktraceLoop(_, _, _, _, _)
\* the loop run for at most `fuel` iterations; every iteration that takes a
\* branch lowers i + j, so m + n iterations end the loop if anything does
BacktraceLoop(dp, st, str1, str2, fuel) ==
    IF (st.i = 0 /\ st.j = 0) \/ fuel = 0 THEN st
    ELSE BacktraceLoop(dp, BacktraceStep(dp, st, str1, str2), str1, str2, fuel - 1)

Backtrace(dp, str1, str2) ==
    BacktraceLoop(dp, [i |-> Len(str1), j |-> Len(str2), operations |-> <<>>],
                  str1, str2, Len(str1) + Len(str2))

\* mutant of Reverse: the list left in backtrace order
Reverse_Skipped(s) == s

\* Array.prototype.reverse
Reverse(s) == [k \in 1..Len(s) |-> s[Len(s) + 1 - k]]

(***************************************************************************)
(* levenshtein.ts: the Operation Optimizer.                                 *)
(***************************************************************************)
\* `op.newChar || ''` and `op.oldChar || ''`
NewCharOf(op) == IF "newChar" \in DOMAIN op THEN op.newChar ELSE <<>>
OldCharOf(op) == IF "oldChar" \in DOMAIN op THEN op.oldChar ELSE <<>>

\* mutant of MergeEnd: the inner while loop never absorbs a following insert
MergeEnd_NoMerge(operations, k, position) == k

RECURSIVE MergeEnd(_, _, _)
\* nextIndex after the inner while loop: the first index from k on that does
\* not hold an insert at `position`
MergeEnd(operations, k, position) ==
    IF k <= Len(operations) /\ operations[k].type = "insert"
       /\ operations[k].position = position
    THEN MergeEnd(operations, k + 1, position)
    ELSE k

RECURSIVE MergedContent_Reversed(_, _, _)
\* mutant of MergedContent: every absorbed newChar put before the content
MergedContent_Reversed(operations, from, to) ==
    IF from > to THEN <<>>
    ELSE MergedContent_Reversed(operations, from + 1, to) \o NewCharOf(operations[from])

RECURSIVE MergedContent(_, _, _)
\* the concatenation of newChar over operations[from .. to]
MergedContent(operations, from, to) ==
    IF from > to THEN <<>>
    ELSE NewCharOf(operations[from]) \o MergedContent(operations, from + 1, to)

\* mutant of HasPrecedingInsert: the non-insert operation is always emitted
HasPrecedingInsert_Never(optimized, current) == FALSE

\* mutant of HasPrecedingInsert: the position of the last emitted insert ignored
HasPrecedingInsert_AnyPosition(optimized, current) ==
    /\ Len(optimized) > 0
    /\ optimized[Len(optimized)].type = "insert"

\* hasPrecedingInsert
HasPrecedingInsert(optimized, current) ==
    /\ Len(optimized) > 0
    /\ optimized[Len(optimized)].type = "insert"
    /\ optimized[Len(optimized)].position = current.position

\* mutant of AbsorbsReplace: the replace behind the run is left alone
AbsorbsReplace_Never(operations, nextIndex, position) == FALSE

\* lines 164-166: the operation behind the run is a replace at the run's position
AbsorbsReplace(operations, nextIndex, position) ==
    /\ nextIndex <= Len(operations)
    /\ operations[nextIndex].type = "replace"
    /\ operations[nextIndex].position = position

\* lines 147-200: one iteration of the for loop at index i (1-based), giving
\* the index of the next iteration and the output so far
OptimizeStep(operations, i, optimized) ==
    LET current == operations[i]
    IN  IF current.type = "insert"
        THEN LET nextIndex == MergeEnd(operations, i + 1, current.position)
                 merged    == MergedContent(operations, i, nextIndex - 1)
                 content   == IF AbsorbsReplace(operations, nextIndex, current.position)
                              THEN merged \o NewCharOf(operations[nextIndex])
                              ELSE merged
             \* `i = nextIndex - 1` and then `i++`
             IN  [index     |-> nextIndex,
                  optimized |-> Append(optimized, [type |-> "insert",
                                                   position |-> current.position,
                                                   newChar |-> content])]
        ELSE [index     |-> i + 1,
              optimized |-> IF HasPrecedingInsert(optimized, current)
                            THEN optimized
                            ELSE Append(optimized, current)]

RECURSIVE OptimizeFrom(_, _, _)
\* the for loop from index i on (1-based), `optimized` being the output so far
OptimizeFrom(operations, i, optimized) ==
    IF i > Len(operations) THEN optimized
    ELSE LET current == operations[i]
         IN  IF current.type = "insert"
             THEN LET nextIndex == MergeEnd(operations, i + 1, current.position)
                      merged    == MergedContent(operations, i, nextIndex - 1)
                      absorbs   == /\ nextIndex <= Len(operations)
                                   /\ operations[nextIndex].type = "replace"
                                   /\ operations[nextIndex].position = current.position
                      content   == IF absorbs
                                   THEN merged \o NewCharOf(operations[nextIndex])
                                   ELSE merged
                  \* `i = nextIndex` is overwritten by `i = nextIndex - 1`, so the
                  \* loop resumes at nextIndex in both cases
                  IN  OptimizeFrom(operations, nextIndex,
                          Append(optimized, [type |-> "insert",
                                             position |-> current.position,
                                             newChar |-> content]))
             ELSE IF HasPrecedingInsert(optimized, current)
                  THEN OptimizeFrom(operations, i + 1, optimized)
                  ELSE OptimizeFrom(operations, i + 1, Append(optimized, current))

optimizeOperations(operations) ==
    IF Len(operations) = 0 THEN operations
    ELSE OptimizeFrom(operations, 1, <<>>)

\* calculateLevenshtein when no timeout check fires: the returned object, the
\* raw (reversed, not yet optimized) operations and whether the backtrace ended
calculateLevenshtein(str1, str2) ==
    LET dp  == FillMatrix(str1, str2)
        bt  == Backtrace(dp, str1, str2)
        raw == Reverse(bt.operations)
    IN  [editDistance |-> dp[Len(str1)][Len(str2)],
         operations   |-> optimizeOperations(raw),
         raw          |-> raw,
         ended        |-> bt.i = 0 /\ bt.j = 0]

(***************************************************************************)
(* levenshtein.ts: the Diff Record Builder.                                 *)
(***************************************************************************)
\* mutant of RecordOf: a modify record with content and originalContent exchanged
RecordOf_SwappedModify(op) ==
    CASE op.type = "replace" ->
           [position |-> op.position, type |-> "modify",
            content |-> OldCharOf(op), originalContent |-> NewCharOf(op)]
      [] op.type = "delete" ->
           [position |-> op.position, type |-> "delete", content |-> OldCharOf(op)]
      [] op.type = "insert" ->
           [position |-> op.position, type |-> "add", content |-> NewCharOf(op)]

\* mutant of RecordOf: a delete record filled from newChar, like the other two
RecordOf_DeleteFromNewChar(op) ==
    CASE op.type = "replace" ->
           [position |-> op.position, type |-> "modify",
            content |-> NewCharOf(op), originalContent |-> OldCharOf(op)]
      [] op.type = "delete" ->
           [position |-> op.position, type |-> "delete", content |-> NewCharOf(op)]
      [] op.type = "insert" ->
           [position |-> op.position, type |-> "add", content |-> NewCharOf(op)]

\* the record pushed for one operation
RecordOf(op) ==
    CASE op.type = "replace" ->
           IF "oldChar" \in DOMAIN op
           THEN [position |-> op.position, type |-> "modify",
                 content |-> NewCharOf(op), originalContent |-> op.oldChar]
           ELSE [position |-> op.position, type |-> "modify", content |-> NewCharOf(op)]
      [] op.type = "delete" ->
           [position |-> op.position, type |-> "delete", content |-> OldCharOf(op)]
      [] op.type = "insert" ->
           [position |-> op.position, type |-> "add", content |-> NewCharOf(op)]

\* mutant of convertOperationsToDiffRecords: the records pushed in front
convertOperationsToDiffRecords_Reversed(operations) ==
    [k \in 1..Len(operations) |-> RecordOf(operations[Len(operations) + 1 - k])]

convertOperationsToDiffRecords(operations) ==
    [k \in 1..Len(operations) |-> RecordOf(operations[k])]

\* 100 %, in the unit the similarity is kept in: hundredths of a percent,
\* which is what `Math.round(similarity * 100) / 100` keeps
FullSimilarity == 10000

\* mutant of RoundDiv: the quotient truncated, not rounded
RoundDiv_Truncated(num, den) == num \div den

\* Math.round(x) for x = num / den >= 0: the nearest integer, halves upwards
RoundDiv(num, den) == (2 * num + den) \div (2 * den)

\* mutant of calculateSimilarity: the Math.max(0, ...) clamp left out
calculateSimilarity_NoClamp(text1, text2, editDistance) ==
    IF Max(Len(text1), Len(text2)) = 0 THEN FullSimilarity
    ELSE FullSimilarity
            - RoundDiv(FullSimilarity * editDistance, Max(Len(text1), Len(text2)))

\* calculateSimilarity, in hundredths of a percent; text.length counts code units
calculateSimilarity(text1, text2, editDistance) ==
    LET maxLength == Max(Len(text1), Len(text2))
    IN  IF maxLength = 0 THEN FullSimilarity
        ELSE IF editDistance >= maxLength THEN 0
        ELSE RoundDiv(FullSimilarity * (maxLength - editDistance), maxLength)

RECURSIVE CountFrom(_, _, _)
\* lines 731-743: the loop over the records, from record k on
CountFrom(diffs, k, counts) ==
    IF k > Len(diffs) THEN counts
    ELSE CountFrom(diffs, k + 1,
            CASE diffs[k].type = "add"    -> [counts EXCEPT !.additions = @ + 1]
              [] diffs[k].type = "delete" -> [counts EXCEPT !.deletions = @ + 1]
              [] diffs[k].type = "modify" -> [counts EXCEPT !.modifications = @ + 1]
              [] OTHER                    -> counts)

\* mutant of calculateDiffStats: a modify record counted as an addition and a
\* deletion
calculateDiffStats_ModifyAsBoth(diffResult) ==
    LET counts == CountFrom(diffResult.diffs, 1,
                            [additions |-> 0, deletions |-> 0, modifications |-> 0])
    IN  [additions     |-> Max(0, counts.additions + counts.modifications),
         deletions     |-> Max(0, counts.deletions + counts.modifications),
         modifications |-> 0,
         similarity    |-> diffResult.similarity]

\* lines 724-752
calculateDiffStats(diffResult) ==
    LET counts == CountFrom(diffResult.diffs, 1,
                            [additions |-> 0, deletions |-> 0, modifications |-> 0])
    IN  [additions     |-> Max(0, counts.additions),
         deletions     |-> Max(0, counts.deletions),
         modifications |-> Max(0, counts.modifications),
         similarity    |-> diffResult.similarity]

(***************************************************************************)
(* The state.                                                               *)
(***************************************************************************)
VARIABLES
    pc,              \* where the running call stands
    \* calculateDiff (levenshtein.ts, lines 640-689)
    text1, text2,    \* its arguments
    options,         \* its DiffOptions argument
    processedText1, processedText2,
    chars1, chars2,  \* the unit sequences handed to the Alignment Engine
    lev,             \* what calculateLevenshtein returned or threw
    result,          \* what calculateDiff returned or threw
    diffStats,       \* what calculateDiffStats made of the result
    segments,        \* what createUnifiedSegments made of the result
    \* calculateLevenshtein (levenshtein.ts, lines 42-135)
    str1, str2,      \* its arguments
    levOptions,      \* its LevenshteinOptions argument
    now,             \* Date.now()
    startTime,
    dp,              \* the alignment matrix
    row,             \* i of the fill loop
    bt,              \* i, j and operations of the backtrace loop
    ret,             \* what the call returned or threw
    \* optimizeOperations (levenshtein.ts, lines 140-203)
    operations,      \* its argument
    origin,          \* where the argument comes from
    optimized,       \* its result
    reoptimized,     \* the result of a second pass over its result
    index,           \* i of its for loop
    \* InputView.vue
    inputData1, inputData2,  \* the two inputs (data1, data2 of the view)
    isComparing,
    errorMessage,
    message,                 \* the ElMessage toast on display
    \* stores/diff.ts
    storeData1, storeData2,  \* data1 and data2 of the store's state
    \* the router
    route,
    \* ResultView.vue
    loading,
    error,
    data1, data2,
    diffResult

diffVars == <<text1, text2, options, processedText1, processedText2,
              chars1, chars2, lev, result, diffStats, segments>>
levVars  == <<str1, str2, levOptions, now, startTime, dp, row, bt, ret>>
optVars  == <<operations, origin, optimized, reoptimized, index>>
viewVars == <<inputData1, inputData2, isComparing, errorMessage, message,
              storeData1, storeData2, route,
              loading, error, data1, data2, diffResult>>
vars     == <<pc, diffVars, levVars, optVars, viewVars>>

None == [kind |-> "none"]

\* an options object without any property: {}
NoOptions == [k \in {} |-> k]

DiffIdle ==
    /\ text1 = <<>> /\ text2 = <<>> /\ options = NoOptions
    /\ processedText1 = <<>> /\ processedText2 = <<>>
    /\ chars1 = <<>> /\ chars2 = <<>>
    /\ lev = None /\ result = None /\ diffStats = None /\ segments = <<>>

LevIdle ==
    /\ str1 = <<>> /\ str2 = <<>> /\ levOptions = NoOptions
    /\ now = 0 /\ startTime = 0
    /\ dp = <<>> /\ row = 0
    /\ bt = [i |-> 0, j |-> 0, operations |-> <<>>]
    /\ ret = None

\* null and undefined
Null == [type |-> "null"]
Undefined == [type |-> "undefined"]

\* a FileData object of type 'text'
TextData(content) == [content |-> content, type |-> "text"]

\* the views as they are set up, the store in its initial state
ViewIdle ==
    /\ inputData1 = TextData(<<>>) /\ inputData2 = TextData(<<>>)
    /\ isComparing = FALSE /\ errorMessage = <<>> /\ message = "none"
    /\ storeData1 = Null /\ storeData2 = Null
    /\ route = "/"
    /\ loading = FALSE /\ error = <<>>
    /\ data1 = Undefined /\ data2 = Undefined
    /\ diffResult = Undefined

OptIdle ==
    /\ operations = <<>> /\ origin = "none"
    /\ optimized = <<>> /\ reoptimized = <<>> /\ index = 0

(***************************************************************************)
(* Spec: one call of calculateDiff.                                         *)
(***************************************************************************)
Texts == SeqsUpTo(Alphabet, MaxLen)

\* the concrete scenarios, and inputs with code units outside Alphabet
ScenarioPairs ==
    { <<Abc, <<>>>>, <<<<>>, Abc>>, <<Kitten, Sitting>>, <<Abc, Xyz>>,
      <<Kitten, Kitten>>,
      <<<<"x", "a", "b", "c">>, <<"y", "b", "c", "d">>>>,
      <<<<HI, LO>>, <<"x", "y">>>>,
      <<<<BOM, "a", "\t", "b">>, <<"a", " ", " ", " ", "b", "\r", "\n">>>> }

InputPairs == (Texts \X Texts) \cup ScenarioPairs

\* configurations validateDiffOptions objects to: a timeout that is not
\* positive, a precision that is none of the three
InvalidOptionSet ==
    {[timeout |-> 0], [timeout |-> -1], [precision |-> "paragraph"]}

OptionSet ==
    {NoOptions} \cup {[precision |-> p, ignoreCase |-> c] : p \in Precisions, c \in BOOLEAN}
               \cup InvalidOptionSet
               \cup {[ignoreWhitespace |-> TRUE],
                     [ignoreWhitespace |-> TRUE, precision |-> "word"]}

TimeoutNotPositive == "timeout must be greater than 0"
PrecisionUnknown   == "precision must be character, word or line"

\* lines 788-806: the errors found in a DiffOptions object
validateDiffOptions(opts) ==
    LET errors ==
            (IF "timeout" \in DOMAIN opts /\ opts.timeout <= 0
             THEN <<TimeoutNotPositive>> ELSE <<>>)
            \o
            (IF "precision" \in DOMAIN opts /\ opts.precision \notin Precisions
             THEN <<PrecisionUnknown>> ELSE <<>>)
    IN  [isValid |-> errors = <<>>, errors |-> errors]

DEFAULT_DIFF_OPTIONS ==
    [timeout |-> DefaultTimeout, ignoreWhitespace |-> FALSE,
     ignoreCase |-> FALSE, precision |-> "character"]

\* { ...DEFAULT_DIFF_OPTIONS, ...options }
FinalOptions(opts) ==
    [k \in DOMAIN DEFAULT_DIFF_OPTIONS \cup DOMAIN opts |->
        IF k \in DOMAIN opts THEN opts[k] ELSE DEFAULT_DIFF_OPTIONS[k]]

\* mutant of CompareText: the whitespace taken out when ignoreWhitespace is set
CompareText_IgnoringWhitespace(processed, opts) ==
    LET kept == IF FinalOptions(opts).ignoreWhitespace
                THEN SelectSeq(processed, LAMBDA c : ~IsSpace(c))
                ELSE processed
    IN  IF FinalOptions(opts).ignoreCase THEN toLowerCase(kept) ELSE kept

\* compareText1 / compareText2
CompareText(processed, opts) ==
    IF FinalOptions(opts).ignoreCase THEN toLowerCase(processed) ELSE processed

Init ==
    /\ pc = "call"
    /\ \E pair \in InputPairs : text1 = pair[1] /\ text2 = pair[2]
    /\ options \in OptionSet
    /\ processedText1 = <<>> /\ processedText2 = <<>>
    /\ chars1 = <<>> /\ chars2 = <<>>
    /\ lev = None /\ result = None /\ diffStats = None /\ segments = <<>>
    /\ LevIdle /\ OptIdle
    /\ ViewIdle

\* lines 645-658: the options, the normalizer, the case fold, the segmenter
Prepare ==
    /\ pc = "call"
    /\ processedText1' = preprocessText(text1)
    /\ processedText2' = preprocessText(text2)
    /\ chars1' = getSplitFunction(FinalOptions(options).precision,
                                  CompareText(preprocessText(text1), options))
    /\ chars2' = getSplitFunction(FinalOptions(options).precision,
                                  CompareText(preprocessText(text2), options))
    /\ pc' = "try"
    /\ UNCHANGED <<text1, text2, options, lev, result, diffStats, segments, levVars, optVars, viewVars>>

\* lines 662-664
levenshteinOptions == [timeout |-> FinalOptions(options).timeout]

\* the check of the first row, made with no time elapsed, already fails: a
\* call with a unit to compare and a negative timeout cannot return
FirstRowTimesOut ==
    /\ Len(chars1) >= 1
    /\ TimedOut(0, EffectiveTimeout(levenshteinOptions))

\* lines 666-670, calculateLevenshtein returns.  A backtrace that does not end
\* never returns: the call hangs.
Align ==
    /\ pc = "try"
    /\ ~FirstRowTimesOut
    /\ LET r == calculateLevenshtein(chars1, chars2)
       IN  IF r.ended
           THEN /\ lev' = [kind |-> "ok", editDistance |-> r.editDistance,
                           operations |-> r.operations]
                /\ pc' = "aligned"
           ELSE /\ lev' = lev
                /\ pc' = "hang"
    /\ UNCHANGED <<text1, text2, options, processedText1, processedText2,
                   chars1, chars2, result, diffStats, segments, levVars, optVars, viewVars>>

\* lines 666-670, calculateLevenshtein throws: the clock is the environment's, and
\* any of the m row checks may find the budget spent (SpecLev has the clock)
AlignTimeout ==
    /\ pc = "try"
    /\ Len(chars1) >= 1
    /\ lev' = [kind |-> "error", message |-> <<TimeoutMessage>>]
    /\ pc' = "catch"
    /\ UNCHANGED <<text1, text2, options, processedText1, processedText2,
                   chars1, chars2, result, diffStats, segments, levVars, optVars, viewVars>>

\* lines 672-684
Build ==
    /\ pc = "aligned"
    /\ result' = [kind         |-> "ok",
                  editDistance |-> lev.editDistance,
                  diffs        |-> convertOperationsToDiffRecords(lev.operations),
                  similarity   |-> calculateSimilarity(processedText1, processedText2,
                                                       lev.editDistance),
                  text1        |-> processedText1,
                  text2        |-> processedText2]
    /\ pc' = "returned"
    /\ UNCHANGED <<text1, text2, options, processedText1, processedText2,
                   chars1, chars2, lev, diffStats, segments, levVars, optVars, viewVars>>

DiffFailedPrefix == "diff failed: "

\* mutant of Rethrow: the caught error thrown again as it is
Rethrow_Unchanged ==
    /\ pc = "catch"
    /\ result' = lev
    /\ pc' = "thrown"
    /\ UNCHANGED <<text1, text2, options, processedText1, processedText2,
                   chars1, chars2, lev, diffStats, segments, levVars, optVars, viewVars>>

\* lines 685-688: a new Error whose message prefixes the caught one's
Rethrow ==
    /\ pc = "catch"
    /\ result' = [kind |-> "error", message |-> <<DiffFailedPrefix>> \o lev.message]
    /\ pc' = "thrown"
    /\ UNCHANGED <<text1, text2, options, processedText1, processedText2,
                   chars1, chars2, lev, diffStats, segments, levVars, optVars, viewVars>>

\* ResultView.vue, line 84: the statistics of the result the view was handed
Stats ==
    /\ pc = "returned"
    /\ diffStats' = calculateDiffStats(result)
    /\ pc' = "stats"
    /\ UNCHANGED <<text1, text2, options, processedText1, processedText2,
                   chars1, chars2, lev, result, segments, levVars, optVars, viewVars>>

Min(a, b) == IF a <= b THEN a ELSE b

RECURSIVE InsertSorted(_, _)
\* d put into the position-sorted list, after the records that do not follow it
InsertSorted(sorted, d) ==
    IF sorted = <<>> THEN <<d>>
    ELSE IF sorted[Len(sorted)].position <= d.position THEN Append(sorted, d)
    ELSE Append(InsertSorted(SubSeq(sorted, 1, Len(sorted) - 1), d), sorted[Len(sorted)])

RECURSIVE SortFrom(_, _, _)
SortFrom(diffs, k, sorted) ==
    IF k > Len(diffs) THEN sorted
    ELSE SortFrom(diffs, k + 1, InsertSorted(sorted, diffs[k]))

\* [...diffs].sort((a, b) => a.position - b.position): a stable sort
SortByPosition(diffs) == SortFrom(diffs, 1, <<>>)

\* text.slice(from, to): both ends clamped to the text, empty when from >= to
slice(text, from, to) ==
    SubSeq(text, Min(from, Len(text)) + 1, Min(to, Len(text)))

\* lines 431-436: the text before the record, pushed as a normal segment
\* unless it is empty
NormalBefore(text, currentIndex, position) ==
    IF position > currentIndex /\ slice(text, currentIndex, position) # <<>>
    THEN <<[content |-> slice(text, currentIndex, position), type |-> "normal"]>>
    ELSE <<>>

\* lines 439-453: the segments a record is rendered as
SegmentsOf(diff) ==
    CASE diff.type = "delete" -> <<[content |-> diff.content, type |-> "deleted"]>>
      [] diff.type = "add"    -> <<[content |-> diff.content, type |-> "added"]>>
      [] diff.type = "modify" ->
           (IF "originalContent" \in DOMAIN diff /\ diff.originalContent # <<>>
            THEN <<[content |-> diff.originalContent, type |-> "deleted"]>>
            ELSE <<>>)
           \o <<[content |-> diff.content, type |-> "added"]>>

\* lines 441, 444 and 450: currentIndex once the record is rendered
CurrentIndexAfter(diff, currentIndex) ==
    CASE diff.type = "delete" -> diff.position + Len(diff.content)
      [] diff.type = "add"    -> currentIndex
      [] diff.type = "modify" ->
           IF "originalContent" \in DOMAIN diff /\ diff.originalContent # <<>>
           THEN diff.position + Len(diff.originalContent)
           ELSE currentIndex

RECURSIVE SegmentsFrom(_, _, _, _, _)
\* lines 429-462: the loop over the sorted records from record k on, then the
\* remaining text
SegmentsFrom(text, sortedDiffs, k, currentIndex, made) ==
    IF k > Len(sortedDiffs)
    THEN IF currentIndex < Len(text) /\ slice(text, currentIndex, Len(text)) # <<>>
         THEN Append(made, [content |-> slice(text, currentIndex, Len(text)),
                            type |-> "normal"])
         ELSE made
    ELSE SegmentsFrom(text, sortedDiffs, k + 1,
                      CurrentIndexAfter(sortedDiffs[k], currentIndex),
                      made \o NormalBefore(text, currentIndex, sortedDiffs[k].position)
                           \o SegmentsOf(sortedDiffs[k]))

\* src/unnamed/part_001, lines 411-462 (the same function is in DiffViewer,
\* src/unnamed/part_000, lines 449-506)
createUnifiedSegments(res) ==
    IF res.diffs = <<>>
    THEN <<[content |-> res.text1, type |-> "normal"]>>
    ELSE SegmentsFrom(res.text1, SortByPosition(res.diffs), 1, 0, <<>>)

\* src/unnamed/part_000, lines 404-406: DiffViewer renders the result it was
\* handed as unified segments
UnifiedSegments ==
    /\ pc = "stats"
    /\ segments' = createUnifiedSegments(result)
    /\ pc' = "rendered"
    /\ UNCHANGED <<text1, text2, options, processedText1, processedText2,
                   chars1, chars2, lev, result, diffStats, levVars, optVars, viewVars>>

Next == Prepare \/ Align \/ AlignTimeout \/ Build \/ Rethrow \/ Stats \/ UnifiedSegments

Spec == Init /\ [][Next]_vars

\* lines 645-684: what a call returns when the Alignment Engine returns
calculateDiffResult(t1, t2, opts) ==
    LET processed1 == preprocessText(t1)
        processed2 == preprocessText(t2)
        units1 == getSplitFunction(FinalOptions(opts).precision,
                                   CompareText(processed1, opts))
        units2 == getSplitFunction(FinalOptions(opts).precision,
                                   CompareText(processed2, opts))
        r == calculateLevenshtein(units1, units2)
    IN  [kind         |-> "ok",
         editDistance |-> r.editDistance,
         diffs        |-> convertOperationsToDiffRecords(r.operations),
         similarity   |-> calculateSimilarity(processed1, processed2, r.editDistance),
         text1        |-> processed1,
         text2        |-> processed2]

(***************************************************************************)
(* Replaying diff records over a text.                                      *)
(***************************************************************************)
\* the code units a record removes from the source text
RemovedBy(d) ==
    CASE d.type = "delete" -> d.content
      [] d.type = "modify" -> IF "originalContent" \in DOMAIN d THEN d.originalContent ELSE <<>>
      [] OTHER             -> <<>>

\* the code units a record puts into the target text
InsertedBy(d) == IF d.type = "delete" THEN <<>> ELSE d.content

RECURSIVE ReplayFrom(_, _, _, _, _)
\* records k.. replayed, `cur` code units of text being consumed and `out` built:
\* the text up to the record's position is copied, what the record removes is
\* skipped, what it inserts is written
ReplayFrom(text, diffs, k, cur, out) ==
    IF k > Len(diffs) THEN out \o SubSeq(text, cur + 1, Len(text))
    ELSE LET d    == diffs[k]
             at   == Max(cur, Min(d.position, Len(text)))
             skip == Min(Len(text), at + Len(RemovedBy(d)))
         IN  ReplayFrom(text, diffs, k + 1, skip,
                        out \o SubSeq(text, cur + 1, at) \o InsertedBy(d))

Replay(text, diffs) == ReplayFrom(text, SortByPosition(diffs), 1, 0, <<>>)

(***************************************************************************)
(* Claims about calculateDiff, checked under Spec.                          *)
(***************************************************************************)
Returned == pc = "returned"

Precision == FinalOptions(options).precision

DefaultOptions == FinalOptions(options) = DEFAULT_DIFF_OPTIONS

\* the set of units of a unit sequence
UnitsOf(units) == {units[k] : k \in 1..Len(units)}

\* C1: with default options, replaying the returned diff records over the
\* returned text1 in position order gives the returned text2.
C1_ReplayReconstructsText2 ==
    (Returned /\ DefaultOptions) =>
        Replay(result.text1, result.diffs) = result.text2

\* C2: calculateDiff(A, A) returns editDistance 0, no diff record and
\* similarity 100.
C2_IdenticalTexts ==
    (Returned /\ text1 = text2) =>
        /\ result.editDistance = 0
        /\ result.diffs = <<>>
        /\ result.similarity = FullSimilarity

C2_Witness ==
    /\ Returned /\ text1 = text2 /\ Len(chars1) >= 2
    /\ result.editDistance = 0

\* C4 as stated: calculateDiff("abc", "") returns editDistance 3, one delete
\* record with content "abc" at position 0, and similarity 0.
C4_SingleDeleteRecord ==
    (Returned /\ Precision = "character" /\ text1 = Abc /\ text2 = <<>>) =>
        /\ result.editDistance = 3
        /\ result.diffs = <<[position |-> 0, type |-> "delete", content |-> Abc]>>
        /\ result.similarity = 0

\* C4 as amended: calculateDiff("abc", "") returns editDistance 3, the three
\* delete records "a" at 0, "b" at 1, "c" at 2, and similarity 0; in general every
\* delete record carries exactly the one source unit at its position, so a run of
\* k deleted units is k records.
C4_OneDeleteRecordPerUnit ==
    Returned =>
        /\ (Precision = "character" /\ text1 = Abc /\ text2 = <<>>) =>
              /\ result.editDistance = 3
              /\ result.diffs =
                    <<[position |-> 0, type |-> "delete", content |-> <<"a">>],
                      [position |-> 1, type |-> "delete", content |-> <<"b">>],
                      [position |-> 2, type |-> "delete", content |-> <<"c">>]>>
              /\ result.similarity = 0
        /\ \A k \in 1..Len(result.diffs) :
              result.diffs[k].type = "delete" =>
                  /\ result.diffs[k].position < Len(chars1)
                  /\ result.diffs[k].content = chars1[result.diffs[k].position + 1]
        /\ (chars2 = <<>>) =>
              /\ Len(result.diffs) = Len(chars1)
              /\ \A k \in 1..Len(result.diffs) :
                    /\ result.diffs[k].type = "delete"
                    /\ result.diffs[k].position = k - 1

C4_Witness ==
    /\ Returned /\ Precision = "character" /\ text1 = Abc /\ text2 = <<>>
    /\ Len(result.diffs) = 3

\* C5: calculateDiff("", "abc") returns editDistance 3, one add record with
\* content "abc" at position 0, and similarity 0.
C5_SingleAddRecord ==
    (Returned /\ Precision = "character" /\ text1 = <<>> /\ text2 = Abc) =>
        /\ result.editDistance = 3
        /\ result.diffs = <<[position |-> 0, type |-> "add", content |-> Abc]>>
        /\ result.similarity = 0

C5_Witness ==
    /\ Returned /\ Precision = "character" /\ text1 = <<>> /\ text2 = Abc
    /\ Len(result.diffs) = 1

\* C6: calculateDiff("kitten", "sitting") returns editDistance 3, and replaying
\* its records over "kitten" in position order gives "sitting".
C6_KittenSitting ==
    (Returned /\ Precision = "character" /\ text1 = Kitten /\ text2 = Sitting) =>
        /\ result.editDistance = 3
        /\ Replay(Kitten, result.diffs) = Sitting

C6_Witness ==
    /\ Returned /\ Precision = "character" /\ text1 = Kitten /\ text2 = Sitting
    /\ Len(result.diffs) = 3

BothEmpty == result.text1 = <<>> /\ result.text2 = <<>>

\* equal length, not empty, and no unit of one text is a unit of the other
EqualLengthNoSharedUnit ==
    /\ Len(result.text1) = Len(result.text2)
    /\ Len(result.text1) > 0
    /\ UnitsOf(chars1) \cap UnitsOf(chars2) = {}

\* C9 as stated: at every precision the similarity lies in [0, 100], is 100 when
\* both texts are empty and is 0 when the texts have equal length and share no
\* unit.
C9_SimilarityZeroWithoutSharedUnit ==
    Returned =>
        /\ result.similarity >= 0 /\ result.similarity <= FullSimilarity
        /\ BothEmpty => result.similarity = FullSimilarity
        /\ EqualLengthNoSharedUnit => result.similarity = 0

\* C9 as amended: at every precision the similarity lies in [0, 100] and is 100
\* when both texts are empty; it is 0 when the texts have equal length, share no
\* unit and every unit is one code unit long.
C9_SimilarityBounds ==
    Returned =>
        /\ result.similarity >= 0 /\ result.similarity <= FullSimilarity
        /\ BothEmpty => result.similarity = FullSimilarity
        /\ (/\ EqualLengthNoSharedUnit
            /\ \A u \in UnitsOf(chars1) \cup UnitsOf(chars2) : Len(u) = 1)
              => result.similarity = 0

C9_Witness ==
    /\ Returned /\ text1 = Abc /\ text2 = Xyz /\ Precision = "character"
    /\ EqualLengthNoSharedUnit
    /\ result.similarity = 0

\* the Alignment Engine failed inside calculateDiff and calculateDiff is done
EngineFailed == pc = "thrown" /\ lev.kind = "error"

\* C11 as stated: when the Alignment Engine fails inside calculateDiff, the
\* caller gets no DiffResult and observes the very error calculateLevenshtein
\* raised, with the same message.
C11_ErrorReachesCallerUnchanged ==
    EngineFailed =>
        /\ result.kind = "error"
        /\ result.message = lev.message

\* C11 amended: when the Alignment Engine fails inside calculateDiff, the caller
\* gets no DiffResult but a new error, whose message is the engine's message
\* behind the prefix calculateDiff puts before it.
C11_ErrorReachesCallerPrefixed ==
    EngineFailed =>
        /\ result.kind = "error"
        /\ DOMAIN result = {"kind", "message"}
        /\ result.message = <<DiffFailedPrefix, TimeoutMessage>>
        /\ result.message = <<DiffFailedPrefix>> \o lev.message

C11_Witness ==
    /\ EngineFailed
    /\ lev.message = <<TimeoutMessage>>
    /\ result.kind = "error"
    /\ Len(result.message) = 2

\* calculateLevenshtein has been called: it returned, hangs or threw
AlignmentBegun == pc \in {"aligned", "hang", "catch", "returned", "stats", "thrown"}

\* C12: calculateDiff called with options that validateDiffOptions rejects (a
\* timeout <= 0, a precision outside character, word, line) never begins the
\* alignment: it neither fails in the matrix fill nor computes a result.
C12_InvalidOptionsRejectedBeforeAlignment ==
    ~validateDiffOptions(options).isValid => ~AlignmentBegun

\* the number of records of a kind
RecordsOfType(diffs, type) ==
    Cardinality({k \in 1..Len(diffs) : diffs[k].type = type})

\* C13: calculateDiffStats of a DiffResult returns as additions, deletions and
\* modifications the numbers of its add, delete and modify records, none
\* negative and together the number of records, and its similarity unchanged.
C13_StatsCountRecordsByKind ==
    pc = "stats" =>
        /\ diffStats.additions = RecordsOfType(result.diffs, "add")
        /\ diffStats.deletions = RecordsOfType(result.diffs, "delete")
        /\ diffStats.modifications = RecordsOfType(result.diffs, "modify")
        /\ diffStats.additions >= 0 /\ diffStats.deletions >= 0
        /\ diffStats.modifications >= 0
        /\ diffStats.additions + diffStats.deletions + diffStats.modifications
              = Len(result.diffs)
        /\ diffStats.similarity = result.similarity

C13_Witness ==
    /\ pc = "stats" /\ text1 = Kitten /\ text2 = Sitting /\ DefaultOptions
    /\ diffStats.additions = 1 /\ diffStats.modifications = 2
    /\ diffStats.deletions = 0

\* C14: for every text and every precision, the units the split function of
\* getSplitFunction(precision) produces, concatenated in order, are the text
\* that was split.
C14_SplitRoundTrip ==
    pc # "call" =>
        /\ Concat(chars1) = CompareText(processedText1, options)
        /\ Concat(chars2) = CompareText(processedText2, options)

C14_Witness ==
    /\ pc = "try" /\ Precision = "word"
    /\ Len(chars1) >= 3 /\ chars1[1] # <<>>
    /\ chars1[2] # <<>> /\ IsSpace(chars1[2][1])
    /\ Concat(chars1) = processedText1

\* content stands in text from offset position on
StartsAt(text, position, content) ==
    /\ position >= 0 /\ position + Len(content) <= Len(text)
    /\ SubSeq(text, position + 1, position + Len(content)) = content

\* C16: at every precision the position of a diff record is an offset into the
\* returned text1: what a delete or modify record removes stands in text1 from
\* that offset on, and the position of an add record lies in 0..length(text1).
C16_PositionsAreTextOffsets ==
    Returned =>
        \A k \in 1..Len(result.diffs) :
            LET d == result.diffs[k]
            IN  IF d.type \in {"delete", "modify"}
                THEN StartsAt(result.text1, d.position, RemovedBy(d))
                ELSE d.position \in 0..Len(result.text1)

\* positions do not decrease along a list of operations or records
NonDecreasingPositions(list) ==
    \A k \in 1..(Len(list) - 1) : list[k].position <= list[k + 1].position

\* C19: the operations calculateLevenshtein returns, and the diff records built
\* from them, are in document order: positions do not decrease along the list,
\* and sorting the records by position leaves the list as it is.
C19_DocumentOrder ==
    Returned =>
        /\ NonDecreasingPositions(lev.operations)
        /\ NonDecreasingPositions(result.diffs)
        /\ SortByPosition(result.diffs) = result.diffs
        /\ Len(result.diffs) = Len(lev.operations)
        /\ \A k \in 1..Len(result.diffs) :
              result.diffs[k].position = lev.operations[k].position

C19_Witness ==
    /\ Returned /\ text1 = Kitten /\ text2 = Sitting /\ DefaultOptions
    /\ Len(result.diffs) = 3
    /\ result.diffs[1].position < result.diffs[2].position
    /\ result.diffs[2].position < result.diffs[3].position

\* max(len(text1), len(text2)) over the returned, normalized texts
MaxTextLength == Max(Len(result.text1), Len(result.text2))

\* C24: the similarity is exactly 100 when both texts are empty, and otherwise
\* max(0, (1 - d / max(len(text1), len(text2))) * 100) rounded to two decimal
\* places (here: to a whole number of hundredths), len being the length of the
\* normalized text and not the number of comparison units.
C24_SimilarityFormula ==
    Returned =>
        IF MaxTextLength = 0 THEN result.similarity = FullSimilarity
        ELSE IF result.editDistance >= MaxTextLength THEN result.similarity = 0
        ELSE LET exactTimesLength ==
                     FullSimilarity * (MaxTextLength - result.editDistance)
                 deviation == result.similarity * MaxTextLength - exactTimesLength
             IN  /\ 2 * deviation <= MaxTextLength
                 /\ 2 * deviation > -MaxTextLength

\* a similarity that needed rounding, the texts being longer than the unit
\* sequences
C24_Witness ==
    /\ Returned
    /\ Max(Len(chars1), Len(chars2)) < MaxTextLength
    /\ result.editDistance >= 1
    /\ result.similarity % 100 # 0

\* C25: convertOperationsToDiffRecords gives a record list of the length and
\* order of the operation list, each record with its operation's position: a
\* replace becomes a modify with content newChar and originalContent oldChar,
\* a delete becomes a delete with content oldChar, an insert becomes an add with
\* content newChar.
C25_RecordsMirrorOperations ==
    Returned =>
        /\ Len(result.diffs) = Len(lev.operations)
        /\ \A k \in 1..Len(lev.operations) :
              LET op == lev.operations[k]
                  d  == result.diffs[k]
              IN  /\ d.position = op.position
                  /\ op.type = "replace" =>
                        d = [position |-> op.position, type |-> "modify",
                             content |-> op.newChar, originalContent |-> op.oldChar]
                  /\ op.type = "delete" =>
                        d = [position |-> op.position, type |-> "delete",
                             content |-> op.oldChar]
                  /\ op.type = "insert" =>
                        d = [position |-> op.position, type |-> "add",
                             content |-> op.newChar]

\* a result with a modify, a delete and an add record
C25_Witness ==
    /\ Returned
    /\ \E k \in 1..Len(result.diffs) : result.diffs[k].type = "modify"
    /\ \E k \in 1..Len(result.diffs) : result.diffs[k].type = "delete"
    /\ \E k \in 1..Len(result.diffs) : result.diffs[k].type = "add"

\* the options with ignoreWhitespace set to w
WithIgnoreWhitespace(opts, w) ==
    [k \in DOMAIN opts \cup {"ignoreWhitespace"} |->
        IF k = "ignoreWhitespace" THEN w ELSE opts[k]]

UnitSeqs == SeqsUpTo(UnitAlphabet, MaxUnits)

\* the options objects: {}, and a timeout that is negative, zero or positive
LevOptionSet == {NoOptions} \cup {[timeout |-> t] : t \in {-1, 0, 1}}

\* a stall of the clock that outlasts the default budget
LongStall == DefaultTimeout + 1

\* what one tick may add to the clock: a millisecond, or a long stall
TickSteps == {1, LongStall}

\* the number of ticks that led to the instant t
TicksUsed(t) == (t \div LongStall) + (t % LongStall)

LevInit ==
    /\ pc = "call"
    /\ str1 \in UnitSeqs
    /\ str2 \in UnitSeqs
    /\ levOptions \in LevOptionSet
    /\ now = 0 /\ startTime = 0
    /\ dp = <<>> /\ row = 0
    /\ bt = [i |-> 0, j |-> 0, operations |-> <<>>]
    /\ ret = None
    /\ DiffIdle /\ OptIdle
    /\ ViewIdle

\* lines 47-61: the timeout, the start time, the matrix and its borders
LevStart ==
    /\ pc = "call"
    /\ startTime' = now
    /\ dp' = InitDP(Len(str1), Len(str2))
    /\ row' = 1
    /\ pc' = "fill"
    /\ UNCHANGED <<str1, str2, levOptions, now, bt, ret, diffVars, optVars, viewVars>>

\* lines 64-81: one iteration of the outer loop, the timeout check first
LevFillRow ==
    /\ pc = "fill"
    /\ row <= Len(str1)
    /\ IF TimedOut(now - startTime, EffectiveTimeout(levOptions))
       THEN /\ ret' = [kind |-> "error", message |-> <<TimeoutMessage>>]
            /\ pc' = "thrown"
            /\ UNCHANGED <<dp, row>>
       ELSE /\ dp' = FillRow(dp, row, str1, str2)
            /\ row' = row + 1
            /\ UNCHANGED <<ret, pc>>
    /\ UNCHANGED <<str1, str2, levOptions, now, startTime, bt, diffVars, optVars, viewVars>>

\* lines 83-85: the outer loop ends, the backtrace starts at (m, n)
LevFillEnd ==
    /\ pc = "fill"
    /\ row > Len(str1)
    /\ bt' = [i |-> Len(str1), j |-> Len(str2), operations |-> <<>>]
    /\ pc' = "backtrace"
    /\ UNCHANGED <<str1, str2, levOptions, now, startTime, dp, row, ret,
                   diffVars, optVars, viewVars>>

\* lines 87-122: one iteration of the backtrace loop
LevBacktrace ==
    /\ pc = "backtrace"
    /\ bt.i > 0 \/ bt.j > 0
    /\ bt' = BacktraceStep(dp, bt, str1, str2)
    /\ UNCHANGED <<pc, str1, str2, levOptions, now, startTime, dp, row, ret,
                   diffVars, optVars, viewVars>>

\* lines 124-134: the reversal in place, the optimizer, the returned object
LevReturn ==
    /\ pc = "backtrace"
    /\ bt.i = 0 /\ bt.j = 0
    /\ bt' = [bt EXCEPT !.operations = Reverse(@)]
    /\ ret' = [kind         |-> "ok",
               editDistance |-> dp[Len(str1)][Len(str2)],
               operations   |-> optimizeOperations(Reverse(bt.operations))]
    /\ pc' = "returned"
    /\ UNCHANGED <<str1, str2, levOptions, now, startTime, dp, row,
                   diffVars, optVars, viewVars>>

\* time passes while the call runs
Tick ==
    /\ pc \in {"fill", "backtrace"}
    /\ TicksUsed(now) < MaxTicks
    /\ \E d \in TickSteps : now' = now + d
    /\ UNCHANGED <<pc, str1, str2, levOptions, startTime, dp, row, bt, ret,
                   diffVars, optVars, viewVars>>

LevNext == LevStart \/ LevFillRow \/ LevFillEnd \/ LevBacktrace \/ LevReturn \/ Tick

SpecLev == LevInit /\ [][LevNext]_vars

(***************************************************************************)
(* The reference edit distance: the least number of single-unit inserts,    *)
(* deletes and replaces that turn one unit sequence into another, found by  *)
(* breadth-first search over the sequences themselves.                      *)
(***************************************************************************)
RemoveAt(s, k) == SubSeq(s, 1, k - 1) \o SubSeq(s, k + 1, Len(s))

InsertAt(s, k, u) == SubSeq(s, 1, k) \o <<u>> \o SubSeq(s, k + 1, Len(s))

\* the sequences one edit away from s, the units being drawn from U
EditsOf(s, U) ==
    {RemoveAt(s, k) : k \in 1..Len(s)}
        \cup {[s EXCEPT ![k] = u] : k \in 1..Len(s), u \in U}
        \cup {InsertAt(s, k, u) : k \in 0..Len(s), u \in U}

RECURSIVE EditsToReach(_, _, _, _)
\* the least k such that target is within k edits, `ball` being the sequences
\* within `k` edits of the start
EditsToReach(ball, target, k, U) ==
    IF target \in ball THEN k
    ELSE EditsToReach(ball \cup UNION {EditsOf(s, U) : s \in ball}, target, k + 1, U)

ReferenceDistance(s, t) == EditsToReach({s}, t, 0, UnitAlphabet)

(***************************************************************************)
(* Claims about calculateLevenshtein, checked under SpecLev.                *)
(***************************************************************************)
LevReturned == pc = "returned"

\* C3: the editDistance returned for (s1, s2) is the least number of single-unit
\* insert, delete and replace operations that turn s1 into s2.
C3_EditDistanceIsMinimal ==
    LevReturned => ret.editDistance = ReferenceDistance(str1, str2)

C3_Witness ==
    /\ LevReturned /\ Len(str1) = 3 /\ Len(str2) = 2
    /\ ret.editDistance = 2

\* C8: the editDistance of (A, B) equals the editDistance of (B, A).
C8_EditDistanceSymmetric ==
    LevReturned => ret.editDistance = calculateLevenshtein(str2, str1).editDistance

C8_Witness ==
    /\ LevReturned /\ Len(str1) # Len(str2) /\ str1 # <<>> /\ str2 # <<>>
    /\ ret.editDistance >= 2

\* the timeout the caller configured: the one it passed, else the default
ConfiguredTimeout ==
    IF "timeout" \in DOMAIN levOptions THEN levOptions.timeout ELSE DefaultTimeout

Elapsed == now - startTime

\* C10 as stated: a call whose wall-clock time exceeds its configured timeout, at
\* any point and for any m, n and timeout value, fails and returns no result.
C10_OverrunNeverReturns ==
    LevReturned => ~(Elapsed > ConfiguredTimeout)

\* C10 as amended: whenever an iteration of the outer fill loop (i = 1..m) starts
\* with the elapsed time above the effective timeout (the configured one, or 5000
\* when that is 0 or not given), the call throws the timeout error, and a call
\* that threw holds no editDistance and no operations.
C10_RowCheckThrows ==
    /\ [][ (/\ pc = "fill" /\ row <= Len(str1)
            /\ now - startTime > EffectiveTimeout(levOptions)
            /\ now' = now)
           => (/\ pc' = "thrown"
               /\ ret' = [kind |-> "error", message |-> <<TimeoutMessage>>]) ]_vars
    /\ [](pc = "thrown" =>
            /\ ret.kind = "error"
            /\ "editDistance" \notin DOMAIN ret
            /\ "operations" \notin DOMAIN ret)

C10_Witness ==
    /\ pc = "thrown"
    /\ "timeout" \in DOMAIN levOptions /\ levOptions.timeout = 1
    /\ row = 2
    /\ Elapsed > 1

\* the conditions of the backtrace at cell (i, j) of the matrix
DiagonalMatch(i, j) == i > 0 /\ j > 0 /\ str1[i] = str2[j]
ReplaceApplies(i, j) == i > 0 /\ j > 0 /\ dp[i][j] = dp[i - 1][j - 1] + 1
DeleteApplies(i, j)  == i > 0 /\ dp[i][j] = dp[i - 1][j] + 1
InsertApplies(i, j)  == j > 0 /\ dp[i][j] = dp[i][j - 1] + 1

\* C17: a backtrace step at a cell with a diagonal match emits no operation;
\* at any other cell it takes the first applicable transition in the order
\* replace, delete, insert: a delete only when replace does not apply, an insert
\* only when neither replace nor delete applies.
C17_BacktraceBranchOrder ==
    [][ (pc = "backtrace" /\ pc' = "backtrace" /\ bt' # bt) =>
          LET i == bt.i
              j == bt.j
              emitted == bt'.operations[Len(bt'.operations)]
          IN  IF DiagonalMatch(i, j)
              THEN /\ bt'.operations = bt.operations
                   /\ bt'.i = i - 1 /\ bt'.j = j - 1
              ELSE /\ Len(bt'.operations) = Len(bt.operations) + 1
                   /\ SubSeq(bt'.operations, 1, Len(bt.operations)) = bt.operations
                   /\ ReplaceApplies(i, j) =>
                        /\ emitted.type = "replace"
                        /\ bt'.i = i - 1 /\ bt'.j = j - 1
                   /\ (~ReplaceApplies(i, j) /\ DeleteApplies(i, j)) =>
                        /\ emitted.type = "delete"
                        /\ bt'.i = i - 1 /\ bt'.j = j
                   /\ (~ReplaceApplies(i, j) /\ ~DeleteApplies(i, j)
                         /\ InsertApplies(i, j)) =>
                        /\ emitted.type = "insert"
                        /\ bt'.i = i /\ bt'.j = j - 1
                   /\ emitted.type = "delete" =>
                        ~ReplaceApplies(i, j) /\ DeleteApplies(i, j)
                   /\ emitted.type = "insert" =>
                        /\ ~ReplaceApplies(i, j) /\ ~DeleteApplies(i, j)
                        /\ InsertApplies(i, j)
      ]_vars

\* the backtrace has just taken the replace transition at a cell where the
\* delete and the insert transition applied as well
C17_Witness ==
    /\ pc = "backtrace"
    /\ bt.operations # <<>>
    /\ bt.operations[Len(bt.operations)].type = "replace"
    /\ ~DiagonalMatch(bt.i + 1, bt.j + 1)
    /\ ReplaceApplies(bt.i + 1, bt.j + 1)
    /\ DeleteApplies(bt.i + 1, bt.j + 1)
    /\ InsertApplies(bt.i + 1, bt.j + 1)

\* C18: every operation the backtrace produces has a position into the source
\* sequence of length m: a replace or delete has 0 <= position < m and its
\* oldChar is source[position]; an insert has 0 <= position <= m, and its
\* position is the row index i at which the insert transition was taken.
C18_PositionsIntoSource ==
    /\ [](pc \in {"backtrace", "returned"} =>
            \A k \in 1..Len(bt.operations) :
                LET op == bt.operations[k]
                IN  IF op.type \in {"replace", "delete"}
                    THEN /\ 0 <= op.position /\ op.position < Len(str1)
                         /\ op.oldChar = str1[op.position + 1]
                    ELSE /\ op.type = "insert"
                         /\ 0 <= op.position /\ op.position <= Len(str1))
    /\ [][ (/\ pc = "backtrace" /\ pc' = "backtrace"
            /\ Len(bt'.operations) = Len(bt.operations) + 1
            /\ bt'.operations[Len(bt'.operations)].type = "insert")
           => bt'.operations[Len(bt'.operations)].position = bt.i ]_vars

\* an insert has just been recorded at a row index that differs from the
\* target index it was taken at
C18_Witness ==
    /\ pc = "backtrace"
    /\ bt.operations # <<>>
    /\ bt.operations[Len(bt.operations)].type = "insert"
    /\ bt.operations[Len(bt.operations)].position = bt.i
    /\ bt.i # bt.j + 1 /\ bt.i # bt.j
    /\ \E k \in 1..Len(bt.operations) : bt.operations[k].type = "replace"

\* C20: editDistance is dp[m][n] and is the number of operations the backtrace
\* emitted before optimization (its non-diagonal transitions); the optimized
\* list that is returned has at most editDistance operations.
C20_DistanceCountsRawOperations ==
    LevReturned =>
        /\ ret.editDistance = dp[Len(str1)][Len(str2)]
        /\ ret.editDistance = Len(bt.operations)
        /\ Len(ret.operations) <= ret.editDistance

C20_Witness ==
    /\ LevReturned
    /\ ret.editDistance = 3 /\ Len(bt.operations) = 3
    /\ Len(ret.operations) < 3
    /\ Len(str1) >= 1

\* SpecLev with the loop of the running call scheduled: an iteration that can
\* be made is made, and so is the return
SpecLevFair ==
    /\ SpecLev
    /\ WF_vars(LevFillRow) /\ WF_vars(LevFillEnd)
    /\ WF_vars(LevBacktrace) /\ WF_vars(LevReturn)

\* C26: the backtrace loop terminates: in every state with i > 0 or j > 0 one of
\* the four branches applies, every iteration lowers i + j, i + j starts at
\* m + n, and the loop reaches (0, 0) and the call returns.
C26_BacktraceTerminates ==
    /\ [](pc = "backtrace" =>
            /\ bt.i >= 0 /\ bt.j >= 0
            /\ bt.i + bt.j <= Len(str1) + Len(str2)
            /\ (bt.i > 0 \/ bt.j > 0) =>
                  \/ DiagonalMatch(bt.i, bt.j) \/ ReplaceApplies(bt.i, bt.j)
                  \/ DeleteApplies(bt.i, bt.j) \/ InsertApplies(bt.i, bt.j))
    /\ [][ (pc = "backtrace" /\ pc' = "backtrace" /\ now' = now)
           => bt'.i + bt'.j < bt.i + bt.j ]_vars
    /\ (pc = "backtrace" ~> pc = "returned")

\* a backtrace that took the insert, the match and the delete branch has
\* reached (0, 0)
C26_Witness ==
    /\ pc = "backtrace" /\ bt.i = 0 /\ bt.j = 0
    /\ Len(str1) >= 2 /\ Len(str2) >= 2
    /\ Len(bt.operations) < Len(str1)
    /\ \E k \in 1..Len(bt.operations) : bt.operations[k].type = "insert"
    /\ \E k \in 1..Len(bt.operations) : bt.operations[k].type = "delete"

(***************************************************************************)
(* SpecOpt: optimizeOperations applied to an operation list, and then to    *)
(* its own result.  The list is one the backtrace of calculateLevenshtein   *)
(* builds (origin "backtrace") or any position-ordered list (origin "any"). *)
(***************************************************************************)
OpPositions == 0..(MaxOps - 2)

OpUniverse ==
    {[type |-> "insert", position |-> p, newChar |-> u] :
        p \in OpPositions, u \in UnitAlphabet}
    \cup {[type |-> "delete", position |-> p, oldChar |-> <<"a">>] : p \in OpPositions}
    \cup {[type |-> "replace", position |-> p, oldChar |-> <<"a">>, newChar |-> u] :
            p \in OpPositions, u \in UnitAlphabet}

PositionOrdered(ops) ==
    \A k \in 1..(Len(ops) - 1) : ops[k].position <= ops[k + 1].position

OrderedOpLists == {ops \in SeqsUpTo(OpUniverse, MaxOps) : PositionOrdered(ops)}

BacktraceOpLists ==
    {calculateLevenshtein(s1, s2).raw : s1 \in UnitSeqs, s2 \in UnitSeqs}

OptInit ==
    /\ pc = "call"
    /\ \/ origin = "backtrace" /\ operations \in BacktraceOpLists
       \/ origin = "any" /\ operations \in OrderedOpLists
    /\ optimized = <<>> /\ reoptimized = <<>> /\ index = 0
    /\ DiffIdle /\ LevIdle
    /\ ViewIdle

OptFirst ==
    /\ pc = "call"
    /\ optimized' = optimizeOperations(operations)
    /\ pc' = "once"
    /\ UNCHANGED <<operations, origin, reoptimized, index, diffVars, levVars, viewVars>>

OptSecond ==
    /\ pc = "once"
    /\ reoptimized' = optimizeOperations(optimized)
    /\ pc' = "twice"
    /\ UNCHANGED <<operations, origin, optimized, index, diffVars, levVars, viewVars>>

OptNext == OptFirst \/ OptSecond

SpecOpt == OptInit /\ [][OptNext]_vars

LineAlphabet == {"a", "\r", "\n"}

NormTexts == SeqsUpTo(LineAlphabet, MaxLen + 1)

NormInit ==
    /\ pc = "call"
    /\ text1 \in NormTexts
    /\ text2 = <<>> /\ options = NoOptions
    /\ processedText1 = <<>> /\ processedText2 = <<>>
    /\ chars1 = <<>> /\ chars2 = <<>>
    /\ lev = None /\ result = None /\ diffStats = None /\ segments = <<>>
    /\ LevIdle /\ OptIdle
    /\ ViewIdle

\* textProcessor.ts, lines 10-12
NormalizeLineBreaks ==
    /\ pc = "call"
    /\ processedText1' = normalizeLineBreaks(text1)
    /\ pc' = "normalized"
    /\ UNCHANGED <<text1, text2, options, processedText2, chars1, chars2,
                   lev, result, diffStats, segments, levVars, optVars, viewVars>>

NormNext == NormalizeLineBreaks

SpecNorm == NormInit /\ [][NormNext]_vars

RECURSIVE LineBreaksUnified(_)
\* the text read once from left to right: a CR together with the LF that
\* follows it, or a CR alone, gives one LF; everything else is copied
LineBreaksUnified(text) ==
    IF text = <<>> THEN <<>>
    ELSE IF text[1] = "\r"
         THEN <<"\n">> \o LineBreaksUnified(
                  IF Len(text) >= 2 /\ text[2] = "\n"
                  THEN SubSeq(text, 3, Len(text)) ELSE Tail(text))
         ELSE <<text[1]>> \o LineBreaksUnified(Tail(text))

\* the number of indices of text that satisfy Test
CountIndices(text, Test(_)) == Cardinality({k \in 1..Len(text) : Test(k)})

\* C15: normalizeLineBreaks(t) has no CR; each CRLF pair of t gives exactly one
\* LF, each CR not followed by LF gives one LF, and every other character is
\* kept, in order.
C15_LineBreaksUnified ==
    pc = "normalized" =>
        /\ \A k \in 1..Len(processedText1) : processedText1[k] # "\r"
        /\ processedText1 = LineBreaksUnified(text1)
        /\ LET IsCR(k)   == text1[k] = "\r"
               IsLoneLF(k) == text1[k] = "\n" /\ (k = 1 \/ text1[k - 1] # "\r")
               IsLFOut(k) == processedText1[k] = "\n"
           IN  CountIndices(processedText1, IsLFOut)
                 = CountIndices(text1, IsCR) + CountIndices(text1, IsLoneLF)
        /\ SelectSeq(processedText1, LAMBDA c : c \notin {"\r", "\n"})
             = SelectSeq(text1, LAMBDA c : c \notin {"\r", "\n"})

C15_Witness ==
    /\ pc = "normalized"
    /\ text1 = <<"a", "\r", "\n", "\r">>
    /\ processedText1 = <<"a", "\n", "\n">>

(***************************************************************************)
(* SpecOptLoop: optimizeOperations, one iteration of its for loop at a time. *)
(***************************************************************************)
OptLoopInit ==
    /\ pc = "call"
    /\ \/ origin = "backtrace" /\ operations \in BacktraceOpLists
       \/ origin = "any" /\ operations \in OrderedOpLists
    /\ optimized = <<>> /\ reoptimized = <<>> /\ index = 0
    /\ DiffIdle /\ LevIdle
    /\ ViewIdle

\* lines 141-145: the empty list is returned as it is, else the loop starts
OptLoopStart ==
    /\ pc = "call"
    /\ optimized' = <<>>
    /\ index' = 1
    /\ pc' = IF Len(operations) = 0 THEN "returned" ELSE "loop"
    /\ UNCHANGED <<operations, origin, reoptimized, diffVars, levVars, viewVars>>

\* lines 150-188: the iteration at an insert
OptLoopInsert ==
    /\ pc = "loop" /\ index <= Len(operations)
    /\ operations[index].type = "insert"
    /\ index' = OptimizeStep(operations, index, optimized).index
    /\ optimized' = OptimizeStep(operations, index, optimized).optimized
    /\ UNCHANGED <<pc, operations, origin, reoptimized, diffVars, levVars, viewVars>>

\* lines 189-199: the iteration at a delete or replace
OptLoopOther ==
    /\ pc = "loop" /\ index <= Len(operations)
    /\ operations[index].type # "insert"
    /\ index' = OptimizeStep(operations, index, optimized).index
    /\ optimized' = OptimizeStep(operations, index, optimized).optimized
    /\ UNCHANGED <<pc, operations, origin, reoptimized, diffVars, levVars, viewVars>>

\* line 202
OptLoopReturn ==
    /\ pc = "loop" /\ index > Len(operations)
    /\ pc' = "returned"
    /\ UNCHANGED <<operations, origin, optimized, reoptimized, index,
                   diffVars, levVars, viewVars>>

OptLoopNext == OptLoopStart \/ OptLoopInsert \/ OptLoopOther \/ OptLoopReturn

SpecOptLoop == OptLoopInit /\ [][OptLoopNext]_vars

\* the loop returns what optimizeOperations computes in one piece
LoopAgreesWithOptimizeOperations ==
    pc = "returned" => optimized = optimizeOperations(operations)

\* the loop stands at an operation of the input
AtOperation == pc = "loop" /\ index <= Len(operations)

\* operations[k] is an insert at position P
InsertAtPosition(k, P) ==
    /\ k \in 1..Len(operations)
    /\ operations[k].type = "insert" /\ operations[k].position = P

\* operations[k] is a replace at position P
ReplaceAtPosition(k, P) ==
    /\ k \in 1..Len(operations)
    /\ operations[k].type = "replace" /\ operations[k].position = P

\* first and last index of the maximal run of consecutive inserts at one
\* position that operations[k], an insert, belongs to
RunStart(k) ==
    CHOOSE s \in 1..k :
        /\ \A n \in s..k : InsertAtPosition(n, operations[k].position)
        /\ ~InsertAtPosition(s - 1, operations[k].position)
RunEnd(k) ==
    CHOOSE e \in k..Len(operations) :
        /\ \A n \in k..e : InsertAtPosition(n, operations[k].position)
        /\ ~InsertAtPosition(e + 1, operations[k].position)

\* the newChar values of operations[from..to], concatenated in input order
RunContent(from, to) == Concat([n \in 1..(to - from + 1) |-> operations[from + n - 1].newChar])

\* C21: a maximal run of consecutive inserts at P immediately followed by a
\* replace at P gives exactly one insert at P, whose newChar is the inserts'
\* newChar in input order followed by the replace's newChar; the replace is
\* consumed: its iteration emits nothing, and the insert carries no oldChar.
C21_RunAbsorbsFollowingReplace ==
    /\ [][ (/\ AtOperation /\ operations[index].type = "insert"
            /\ ReplaceAtPosition(RunEnd(index) + 1, operations[index].position))
           => /\ index = RunStart(index)
              /\ index' = RunEnd(index) + 1
              /\ optimized' = Append(optimized,
                    [type     |-> "insert",
                     position |-> operations[index].position,
                     newChar  |-> RunContent(index, RunEnd(index))
                                    \o operations[RunEnd(index) + 1].newChar]) ]_vars
    /\ [][ (/\ AtOperation /\ operations[index].type = "replace"
            /\ InsertAtPosition(index - 1, operations[index].position))
           => /\ optimized' = optimized
              /\ index' = index + 1 ]_vars

\* the loop stands behind a run of two inserts and the replace that followed it
C21_Witness ==
    /\ pc = "loop" /\ index >= 4
    /\ ReplaceAtPosition(index - 1, operations[index - 1].position)
    /\ InsertAtPosition(index - 2, operations[index - 1].position)
    /\ InsertAtPosition(index - 3, operations[index - 1].position)
    /\ Len(optimized) = 1
    /\ optimized[1] = [type     |-> "insert",
                       position |-> operations[index - 1].position,
                       newChar  |-> operations[index - 3].newChar
                                      \o operations[index - 2].newChar
                                      \o operations[index - 1].newChar]

\* the loop has just left a run of inserts: operations[index - 1] is its last
BehindRun ==
    /\ pc \in {"loop", "returned"}
    /\ index > 1 /\ index - 1 <= Len(operations)
    /\ operations[index - 1].type = "insert"

\* C22 as stated: every maximal run of consecutive inserts at one position is
\* emitted as a single insert at that position whose newChar is the
\* concatenation of the run's newChar values in input order.
C22_RunEmittedAsItsConcatenation ==
    BehindRun =>
        /\ optimized # <<>>
        /\ optimized[Len(optimized)] =
              [type     |-> "insert",
               position |-> operations[index - 1].position,
               newChar  |-> RunContent(RunStart(index - 1), index - 1)]

\* C22 amended: every maximal run of consecutive inserts at one position is
\* emitted as a single insert at that position; its newChar is the
\* concatenation of the run's newChar values in input order, followed by the
\* newChar of the replace at that position when one comes right behind the run.
\* Inserts at different positions are never merged.
C22_RunEmittedWithFollowingReplace ==
    BehindRun =>
        /\ index - 1 = RunEnd(index - 1)
        /\ optimized # <<>>
        /\ optimized[Len(optimized)] =
              [type     |-> "insert",
               position |-> operations[index - 1].position,
               newChar  |-> RunContent(RunStart(index - 1), index - 1)
                              \o (IF ReplaceAtPosition(index, operations[index - 1].position)
                                  THEN operations[index].newChar ELSE <<>>)]
        /\ \A k \in RunStart(index - 1)..(index - 1) :
              operations[k].position = optimized[Len(optimized)].position

\* the loop stands behind a run of two inserts with different newChar, an
\* insert at another position coming next
C22_Witness ==
    /\ BehindRun /\ index = 3 /\ Len(operations) = 3
    /\ RunStart(2) = 1
    /\ operations[1].newChar # operations[2].newChar
    /\ operations[3].type = "insert"
    /\ operations[3].position # operations[2].position
    /\ optimized = <<[type     |-> "insert",
                      position |-> operations[1].position,
                      newChar  |-> operations[1].newChar \o operations[2].newChar]>>

\* the delete and replace operations of a list, in order
NonInserts(ops) == SelectSeq(ops, LAMBDA op : op.type # "insert")

RECURSIVE IsSubsequence(_, _)
\* sub is got from seq by leaving elements out
IsSubsequence(sub, seq) ==
    IF sub = <<>> THEN TRUE
    ELSE IF seq = <<>> THEN FALSE
    ELSE IF Head(sub) = Head(seq) THEN IsSubsequence(Tail(sub), Tail(seq))
    ELSE IsSubsequence(sub, Tail(seq))

\* C23: a delete or replace of the input is emitted unchanged, in its original
\* relative order, unless the last emitted operation is an insert at its
\* position, and then it is dropped; a delete or replace at P right behind an
\* insert at P is never emitted.
C23_NonInsertsKeptUnlessBehindInsert ==
    /\ [][ (AtOperation /\ operations[index].type # "insert")
           => /\ index' = index + 1
              /\ optimized' =
                    IF /\ optimized # <<>>
                       /\ optimized[Len(optimized)].type = "insert"
                       /\ optimized[Len(optimized)].position = operations[index].position
                    THEN optimized
                    ELSE Append(optimized, operations[index]) ]_vars
    /\ [][ (/\ AtOperation /\ operations[index].type # "insert"
            /\ InsertAtPosition(index - 1, operations[index].position))
           => optimized' = optimized ]_vars
    /\ [](pc = "returned" =>
            IsSubsequence(NonInserts(optimized), NonInserts(operations)))

\* a delete behind an insert at its position was dropped, a delete at another
\* position was emitted
C23_Witness ==
    /\ pc = "returned" /\ Len(operations) = 3
    /\ operations[1].type = "insert"
    /\ operations[2].type = "delete" /\ operations[2].position = operations[1].position
    /\ operations[3].type = "delete" /\ operations[3].position # operations[1].position
    /\ optimized = <<operations[1], operations[3]>>

(***************************************************************************)
(* SpecApp: the two views, the store and the router.                        *)
(* pc = "idle": the event loop waits for the user; "pushing": handleCompare *)
(* awaits router.push; "mounted": ResultView has been set up; "computing":  *)
(* calculateDiff of ResultView awaits the diff.                             *)
(***************************************************************************)
\* what the user may type into an input
AppTexts == {<<>>, <<" ">>, <<"a">>, <<"a", "b">>}

RECURSIVE TrimStart(_)
TrimStart(text) ==
    IF text # <<>> /\ IsSpace(text[1]) THEN TrimStart(Tail(text)) ELSE text

\* String.prototype.trim
Trim(text) == Reverse(TrimStart(Reverse(TrimStart(text))))

\* mutant of canCompare: the contents not trimmed
canCompare_NoTrim == inputData1.content # <<>> /\ inputData2.content # <<>>

\* InputView.vue, lines 180-182
canCompare == Trim(inputData1.content) # <<>> /\ Trim(inputData2.content) # <<>>

TextEmpty == "text is empty"

\* textProcessor.ts, lines 142-176, the warnings left out
validateTextContent(text) ==
    IF text = <<>> \/ Trim(text) = <<>>
    THEN [isValid |-> FALSE, errors |-> <<TextEmpty>>]
    ELSE [isValid |-> TRUE, errors |-> <<>>]

\* `data.value?.content` is truthy
HasContent(data) == "content" \in DOMAIN data /\ data.content # <<>>

MissingData      == "missing data to compare"
DataNotFound     == "no data found, please enter it again"
ValidationFailed == "text validation failed: "
CompareFailed    == "comparison failed, please retry"

\* ResultView.vue, lines 73-78: the options of the call
ViewOptions ==
    [timeout |-> 10000, precision |-> "character",
     ignoreWhitespace |-> FALSE, ignoreCase |-> FALSE]

\* ResultView.vue, lines 47-78: calculateDiff of the view up to its await, for
\* the data d1, d2 the view holds
CalculateDiffStart(d1, d2) ==
    IF ~HasContent(d1) \/ ~HasContent(d2)
    THEN /\ error' = <<MissingData>>
         /\ loading' = loading
         /\ pc' = "idle"
    ELSE LET validation1 == validateTextContent(d1.content)
             validation2 == validateTextContent(d2.content)
         IN  IF ~validation1.isValid \/ ~validation2.isValid
             THEN /\ error' = <<ValidationFailed>> \o validation1.errors
                                  \o validation2.errors
                  /\ loading' = FALSE
                  /\ pc' = "idle"
             ELSE /\ error' = <<>>
                  /\ loading' = TRUE
                  /\ pc' = "computing"

AppInit ==
    /\ pc = "idle"
    /\ DiffIdle /\ LevIdle /\ OptIdle
    /\ ViewIdle

\* InputView.vue, lines 65 and 126 (v-model) and 185-191 (switchInputType)
EditInput ==
    /\ pc = "idle" /\ route = "/"
    /\ \E t \in AppTexts :
          \/ inputData1' = TextData(t) /\ inputData2' = inputData2
          \/ inputData2' = TextData(t) /\ inputData1' = inputData1
    /\ UNCHANGED <<pc, isComparing, errorMessage, message, storeData1, storeData2,
                   route, loading, error, data1, data2, diffResult,
                   diffVars, levVars, optVars>>

\* the toast disappears
MessageExpires ==
    /\ pc = "idle" /\ message # "none"
    /\ message' = "none"
    /\ UNCHANGED <<pc, inputData1, inputData2, isComparing, errorMessage,
                   storeData1, storeData2, route, loading, error, data1, data2,
                   diffResult, diffVars, levVars, optVars>>

\* InputView.vue, lines 237-257: handleCompare up to its await
HandleCompare ==
    /\ pc = "idle" /\ route = "/"
    /\ IF ~canCompare
       THEN /\ message' = "warning"
            /\ UNCHANGED <<pc, isComparing, errorMessage, storeData1, storeData2>>
       ELSE IF inputData1.content = inputData2.content
       THEN /\ message' = "info"
            /\ UNCHANGED <<pc, isComparing, errorMessage, storeData1, storeData2>>
       ELSE /\ isComparing' = TRUE
            /\ errorMessage' = <<>>
            /\ storeData1' = inputData1
            /\ storeData2' = inputData2
            /\ pc' = "pushing"
            /\ message' = message
    /\ UNCHANGED <<inputData1, inputData2, route, loading, error, data1, data2,
                   diffResult, diffVars, levVars, optVars>>

\* InputView.vue, lines 257 and 262-264: the navigation succeeds; ResultView
\* is set up with fresh state, InputView is gone
PushResolved ==
    /\ pc = "pushing"
    /\ route' = "/result"
    /\ isComparing' = FALSE
    /\ loading' = FALSE /\ error' = <<>>
    /\ data1' = Undefined /\ data2' = Undefined
    /\ diffResult' = Undefined /\ diffStats' = None
    /\ pc' = "mounted"
    /\ UNCHANGED <<inputData1, inputData2, errorMessage, message,
                   storeData1, storeData2,
                   text1, text2, options, processedText1, processedText2,
                   chars1, chars2, lev, result, segments, levVars, optVars>>

\* InputView.vue, lines 258-264: the navigation fails
PushRejected ==
    /\ pc = "pushing"
    /\ errorMessage' = <<CompareFailed>>
    /\ isComparing' = FALSE
    /\ pc' = "idle"
    /\ UNCHANGED <<inputData1, inputData2, message, storeData1, storeData2, route,
                   loading, error, data1, data2, diffResult,
                   diffVars, levVars, optVars>>

\* ResultView.vue, lines 106-118: onMounted
OnMounted ==
    /\ pc = "mounted"
    /\ IF storeData1 # Null /\ storeData2 # Null
       THEN /\ data1' = storeData1
            /\ data2' = storeData2
            /\ CalculateDiffStart(storeData1, storeData2)
       ELSE /\ error' = <<DataNotFound>>
            /\ pc' = "idle"
            /\ UNCHANGED <<data1, data2, loading>>
    /\ UNCHANGED <<inputData1, inputData2, isComparing, errorMessage, message,
                   storeData1, storeData2, route, diffResult,
                   diffVars, levVars, optVars>>

\* ResultView.vue, lines 100-104: recalculateDiff
RecalculateDiff ==
    /\ pc = "idle" /\ route = "/result"
    /\ HasContent(data1) /\ HasContent(data2)
    /\ CalculateDiffStart(data1, data2)
    /\ UNCHANGED <<inputData1, inputData2, isComparing, errorMessage, message,
                   storeData1, storeData2, route, data1, data2, diffResult,
                   diffVars, levVars, optVars>>

\* ResultView.vue, lines 73-84 and 89-91: the diff is returned
DiffReturned ==
    /\ pc = "computing"
    /\ diffResult' = calculateDiffResult(data1.content, data2.content, ViewOptions)
    /\ diffStats' = calculateDiffStats(
                        calculateDiffResult(data1.content, data2.content, ViewOptions))
    /\ loading' = FALSE
    /\ pc' = "idle"
    /\ UNCHANGED <<inputData1, inputData2, isComparing, errorMessage, message,
                   storeData1, storeData2, route, error, data1, data2,
                   text1, text2, options, processedText1, processedText2,
                   chars1, chars2, lev, result, segments, levVars, optVars>>

\* ResultView.vue, lines 85-91: the diff throws, the Alignment Engine having
\* run out of time
DiffThrown ==
    /\ pc = "computing"
    /\ error' = <<DiffFailedPrefix, TimeoutMessage>>
    /\ loading' = FALSE
    /\ pc' = "idle"
    /\ UNCHANGED <<inputData1, inputData2, isComparing, errorMessage, message,
                   storeData1, storeData2, route, data1, data2, diffResult,
                   diffVars, levVars, optVars>>

\* ResultView.vue, lines 37-39: goBack; InputView is set up with fresh state
GoBack ==
    /\ pc = "idle" /\ route = "/result"
    /\ route' = "/"
    /\ inputData1' = TextData(<<>>) /\ inputData2' = TextData(<<>>)
    /\ isComparing' = FALSE /\ errorMessage' = <<>>
    /\ UNCHANGED <<pc, message, storeData1, storeData2, loading, error,
                   data1, data2, diffResult, diffVars, levVars, optVars>>

\* router/index.ts: the result page opened by its address
OpenResult ==
    /\ pc = "idle" /\ route = "/"
    /\ route' = "/result"
    /\ loading' = FALSE /\ error' = <<>>
    /\ data1' = Undefined /\ data2' = Undefined
    /\ diffResult' = Undefined /\ diffStats' = None
    /\ pc' = "mounted"
    /\ UNCHANGED <<inputData1, inputData2, isComparing, errorMessage, message,
                   storeData1, storeData2,
                   text1, text2, options, processedText1, processedText2,
                   chars1, chars2, lev, result, segments, levVars, optVars>>

AppNext ==
    \/ EditInput \/ MessageExpires \/ HandleCompare \/ PushResolved \/ PushRejected
    \/ OnMounted \/ RecalculateDiff \/ DiffReturned \/ DiffThrown
    \/ GoBack \/ OpenResult

SpecApp == AppInit /\ [][AppNext]_vars

\* no run of ResultView's calculateDiff is under way
RunSettled == pc = "idle" /\ route = "/result"

\* C28: in ResultView, once a run of calculateDiff has settled, loading is
\* false and a non-empty error never coexists with a held diffResult: when the
\* latest run ended in an error, diffResult is undefined.
C28_ErrorNeverBesideResult ==
    RunSettled =>
        /\ loading = FALSE
        /\ ~(error # <<>> /\ diffResult # Undefined)

\* a text with a character that is not whitespace
NonBlank(text) == \E k \in 1..Len(text) : ~IsSpace(text[k])

\* C29: handleCompare writes the store and requests the navigation to /result
\* only when both contents are non-blank and differ; on its other paths the
\* store and the route stay as they are; isComparing is false once it has
\* completed; the store's data1 and data2 are both null or both non-null.
C29_StoreWrittenOnlyForComparableInputs ==
    /\ [][ (\/ storeData1' # storeData1 \/ storeData2' # storeData2
            \/ (pc # "pushing" /\ pc' = "pushing"))
           => /\ pc = "idle" /\ route = "/"
              /\ NonBlank(inputData1.content) /\ NonBlank(inputData2.content)
              /\ inputData1.content # inputData2.content
              /\ storeData1' = inputData1 /\ storeData2' = inputData2
              /\ pc' = "pushing" /\ isComparing' ]_vars
    /\ [][ (/\ pc = "idle" /\ route = "/"
            /\ inputData1' = inputData1 /\ inputData2' = inputData2
            /\ ~(/\ NonBlank(inputData1.content) /\ NonBlank(inputData2.content)
                 /\ inputData1.content # inputData2.content))
           => /\ storeData1' = storeData1 /\ storeData2' = storeData2
              /\ pc' # "pushing" /\ isComparing' = FALSE ]_vars
    /\ [](pc \in {"idle", "mounted", "computing"} => isComparing = FALSE)
    /\ []((storeData1 = Null) <=> (storeData2 = Null))

\* handleCompare has written the store and awaits the navigation
C29_Witness ==
    /\ pc = "pushing" /\ route = "/" /\ isComparing
    /\ storeData1 = inputData1 /\ storeData2 = inputData2
    /\ storeData1 # Null
    /\ NonBlank(inputData1.content) /\ NonBlank(inputData2.content)
    /\ inputData1.content # inputData2.content

(***************************************************************************)
(* Claims about createUnifiedSegments, checked under Spec.                  *)
(***************************************************************************)
Rendered == pc = "rendered"

RECURSIVE ContentsOfTypes(_, _, _)
\* the contents of the segments k.. whose type is in `types`, concatenated in
\* order
ContentsOfTypes(segs, types, k) ==
    IF k > Len(segs) THEN <<>>
    ELSE (IF segs[k].type \in types THEN segs[k].content ELSE <<>>)
         \o ContentsOfTypes(segs, types, k + 1)

\* C30: with default options, the contents of the normal and deleted segments
\* concatenated in order are the result's text1, and the contents of the
\* normal and added segments concatenated in order are the result's text2.
C30_SegmentsReproduceTexts ==
    (Rendered /\ DefaultOptions) =>
        /\ ContentsOfTypes(segments, {"normal", "deleted"}, 1) = result.text1
        /\ ContentsOfTypes(segments, {"normal", "added"}, 1) = result.text2

====
